---- MODULE Spec2Model ----
(***************************************************************************)
(* Model of retraction-seeker.py: the generator of a retraction            *)
(* calibration G-code (a grid of square pillars, one per combination of    *)
(* retraction distance (X), retraction speed (Y) and nozzle temperature    *)
(* (Z band)).                                                              *)
(*                                                                         *)
(* Python floats are modelled as exact rationals <<n, d>> in lowest terms  *)
(* with d > 0 (0.45 is <<9, 20>>); Python ints stay integers.  The unit    *)
(* is the one of the source (mm, mm/s, degrees Celsius).  The standard     *)
(* output is the sequence gcode of emitted instructions, the error stream  *)
(* the sequence stderr.                                                    *)
(***************************************************************************)
EXTENDS Integers, Sequences, FiniteSets, TLC

(***************************************************************************)
(* Bounds of the configurations that the overlay (settings.json) supplies. *)
(***************************************************************************)
MaxStepsX == 2
MaxStepsY == 2
MaxStepsZ == 2
MaxBandLayers == 2

(***************************************************************************)
(* Float arithmetic, as exact rational arithmetic.  The arithmetic is      *)
(* defined as functions, which are applied to values, and wrapped in       *)
(* operators.                                                              *)
(***************************************************************************)
Abs(n) == IF n < 0 THEN -n ELSE n

\* greatest common divisor, by Euclid's algorithm
GCDOf[a \in Nat, b \in Nat] == IF b = 0 THEN a ELSE GCDOf[b, a % b]

GCD(a, b) == GCDOf[a, b]

Rat == Int \X Int

\* the rational n/d (d # 0) in lowest terms, denominator positive
RatOf[n \in Int, d \in Int] ==
    LET g == GCDOf[Abs(n), Abs(d)]
        sgn == IF d < 0 THEN -1 ELSE 1
    IN  <<sgn * (n \div g), sgn * (d \div g)>>

RatAdd[a \in Rat, b \in Rat] == RatOf[a[1] * b[2] + b[1] * a[2], a[2] * b[2]]

RatMul[a \in Rat, b \in Rat] ==
    LET g1 == GCDOf[Abs(a[1]), b[2]]
        g2 == GCDOf[Abs(b[1]), a[2]]
    IN  RatOf[(a[1] \div g1) * (b[1] \div g2), (a[2] \div g2) * (b[2] \div g1)]

RatInv[a \in Rat] == RatOf[a[2], a[1]]

RatLess[a \in Rat, b \in Rat] == a[1] * b[2] < b[1] * a[2]

Q(n, d) == RatOf[n, d]
QI(n) == <<n, 1>>
QAdd(a, b) == RatAdd[a, b]
QNeg(a) == RatMul[<<-1, 1>>, a]
QSub(a, b) == RatAdd[a, QNeg(b)]
QMul(a, b) == RatMul[a, b]
QDiv(a, b) == RatMul[a, RatInv[b]]
QLess(a, b) == RatLess[a, b]
QLeq(a, b) == ~RatLess[b, a]
QMin(a, b) == IF RatLess[b, a] THEN b ELSE a

\* floor of the square root of a natural number, by bisection
ISqrtIn[n \in Nat, lo \in Nat, hi \in Nat] ==
    IF lo >= hi THEN lo
    ELSE IF ((lo + hi + 1) \div 2) * ((lo + hi + 1) \div 2) <= n
         THEN ISqrtIn[n, (lo + hi + 1) \div 2, hi]
         ELSE ISqrtIn[n, lo, ((lo + hi + 1) \div 2) - 1]

ISqrt(n) == ISqrtIn[n, 0, IF n < 46340 THEN n ELSE 46340]

\* math.sqrt of a non-negative rational: exact when numerator and
\* denominator are perfect squares (every distance of an axis-aligned
\* segment), else the floor of both
RatSqrt[a \in Rat] == RatOf[ISqrt(a[1]), ISqrt(a[2])]

QSqrt(a) == RatSqrt[a]

\* math.pi, as the rational 355/113
Pi == Q(355, 113)

\* int(x) of a non-negative float: truncation
IntOf(a) == a[1] \div a[2]

(***************************************************************************)
(* The settings dictionary.  A key that does not exist yet is not in the   *)
(* record's domain; Put is dict assignment / dict.update.                  *)
(***************************************************************************)
Put(s, r) == r @@ s

\* the numeric defaults of the settings dictionary (the G-code text
\* snippets intro_abl and intro_prime are left out)
DefaultSettings ==
    [ accel_x |-> 1000, accel_y |-> 1000, accel_z |-> 500, accel_e |-> 10000,
      feed_x |-> 120, feed_y |-> 120, feed_z |-> 10, feed_z_m |-> 600,
      feed_e |-> 120,
      temp_bed |-> 55, temp_nozzle |-> 210,
      fan_spd_initial |-> 0, fan_spd_other |-> 127,
      feed_travel |-> 8 * 10 * 60, feed_print |-> 5 * 10 * 60,
      bed_size_x |-> 230, bed_size_y |-> 210,
      nozzle_diam |-> Q(4, 10), layer_height |-> Q(16, 100),
      line_width |-> Q(45, 100), filament_diam |-> Q(175, 100),
      ret_d_start |-> Q(1, 1), ret_d_step |-> Q(25, 100),
      ret_spd_start |-> QI(10), ret_spd_step |-> Q(25, 10),
      ret_temp_start |-> 210, ret_temp_step |-> -5,
      ret_temp_step_h |-> IntOf(QDiv(QI(5), Q(16, 100))),
      square_size |-> QI(4), max_tile_span |-> 20,
      steps_x |-> 20, steps_y |-> 20, steps_z |-> 5,
      margin_x |-> 20, margin_y |-> 20 ]

(***************************************************************************)
(* The contents of settings.json that the model runs with.  A sweep        *)
(* overlay sets the tile counts, the layers per band, the pillar size and  *)
(* the bed size; a layer-height overlay sets the layer height and the tile *)
(* counts and leaves the layers per band at the default.  Every run of     *)
(* the model reads an overlay: the run without settings.json (20 x 20      *)
(* tiles in 155 layers) differs from these by its counts only.             *)
(***************************************************************************)
SquareSizes == {Q(95, 100), QI(4), QI(6)}
BedSizes == {<<230, 210>>, <<50, 50>>}
LayerHeights == {Q(16, 100), Q(2, 10)}

SweepOverlays ==
    { [ steps_x |-> sx, steps_y |-> sy, steps_z |-> sz, ret_temp_step_h |-> h,
        square_size |-> sq, bed_size_x |-> bed[1], bed_size_y |-> bed[2] ] :
        sx \in 1..MaxStepsX, sy \in 1..MaxStepsY, sz \in 1..MaxStepsZ,
        h \in 1..MaxBandLayers, sq \in SquareSizes, bed \in BedSizes }

LayerHeightOverlays ==
    { [ layer_height |-> lh, steps_x |-> 1, steps_y |-> 1, steps_z |-> 1 ] :
        lh \in LayerHeights }

Overlays == SweepOverlays \cup LayerHeightOverlays

VARIABLES
    overrides,      \* the dictionary read from settings.json
    settings,       \* the global settings dictionary
    z_tile,         \* loop variables of the sweep; -1 before the first
    z_tile_layers,  \*   iteration of the loop that is being entered
    z_layer,
    y_tile,
    x_tile,
    pc,             \* position of the script
    gcode,          \* standard output: the emitted instructions
    stderr          \* error stream: the diagnostics

vars == <<overrides, settings, z_tile, z_tile_layers, z_layer, y_tile, x_tile,
          pc, gcode, stderr>>

(***************************************************************************)
(* Recalculation functions: each maps the settings to the new settings.    *)
(***************************************************************************)
recalculate_z_tile(s, z) ==
    Put(s, [ temp_nozzle |-> s.ret_temp_start + s.ret_temp_step * s.z_tile,
             tile_origin_z |-> QMul(QI(z * s.ret_temp_step_h), s.layer_height) ])

recalculate_layer(s, layer) ==
    LET fan_spd == IF layer = 0 THEN s.fan_spd_initial ELSE s.fan_spd_other
    IN  Put(s, [ layer |-> layer,
                 coord_z |-> QMul(s.layer_height, QI(layer + 1)),
                 fan_spd_cmd |-> IF fan_spd = 0 THEN <<"M107">>
                                               ELSE <<"M106", fan_spd>>,
                 fan_spd |-> fan_spd ])

\* variant of recalculate_tile_settings with the axes of distance and speed
\* exchanged (distance from y, speed from x)
recalculate_tile_settings_swapped(s, x, y, z) ==
    LET ret_d == QAdd(s.ret_d_start, QMul(s.ret_d_step, QI(y)))
        ret_spd == QAdd(s.ret_spd_start, QMul(s.ret_spd_step, QI(x)))
    IN  Put(s, [ tile_x |-> x, tile_y |-> y, tile_z |-> z,
                 ret_d |-> QNeg(ret_d),
                 deret_d |-> ret_d,
                 ret_spd |-> ret_spd,
                 ret_feed |-> QMul(ret_spd, QI(60)),
                 tile_origin_x |->
                     QAdd(s.tile_x_start, QMul(QI(x), s.tile_x_step)),
                 tile_origin_y |->
                     QAdd(s.tile_y_start, QMul(QI(y), s.tile_y_step)) ])

recalculate_tile_settings(s, x, y, z) ==
    LET ret_d == QAdd(s.ret_d_start, QMul(s.ret_d_step, QI(x)))
        ret_spd == QAdd(s.ret_spd_start, QMul(s.ret_spd_step, QI(y)))
    IN  Put(s, [ tile_x |-> x, tile_y |-> y, tile_z |-> z,
                 ret_d |-> QNeg(ret_d),
                 deret_d |-> ret_d,
                 ret_spd |-> ret_spd,
                 ret_feed |-> QMul(ret_spd, QI(60)),
                 tile_origin_x |->
                     QAdd(s.tile_x_start, QMul(QI(x), s.tile_x_step)),
                 tile_origin_y |->
                     QAdd(s.tile_y_start, QMul(QI(y), s.tile_y_step)) ])

\* variant of recalculate_constants that does not cap the tile steps at
\* max_tile_span
recalculate_constants_unclamped(s) ==
    LET span_x == s.bed_size_x - 2 * s.margin_x
        span_y == s.bed_size_y - 2 * s.margin_y
        nozzle_r == QDiv(s.nozzle_diam, QI(2))
        mm3_per_mm ==
            QMul(s.layer_height,
                 QSub(s.line_width,
                      QMul(s.layer_height, QSub(QI(1), QMul(Q(25, 100), Pi)))))
        filament_r == QDiv(s.filament_diam, QI(2))
    IN  Put(s, [ tile_x_start |-> QI(s.margin_x),
                 tile_y_start |-> QI(s.margin_y),
                 tile_x_step |-> Q(span_x, s.steps_x),
                 tile_y_step |-> Q(span_y, s.steps_y),
                 nozzle_area |-> QMul(Pi, QMul(nozzle_r, nozzle_r)),
                 mm3_per_mm |-> mm3_per_mm,
                 e_per_mm |->
                     QDiv(mm3_per_mm, QMul(Pi, QMul(filament_r, filament_r))) ])

recalculate_constants(s) ==
    LET span_x == s.bed_size_x - 2 * s.margin_x
        span_y == s.bed_size_y - 2 * s.margin_y
        nozzle_r == QDiv(s.nozzle_diam, QI(2))
        nozzle_area == QMul(Pi, QMul(nozzle_r, nozzle_r))
        layer_height == s.layer_height
        width == s.line_width
        mm3_per_mm ==
            QMul(layer_height,
                 QSub(width,
                      QMul(layer_height, QSub(QI(1), QMul(Q(25, 100), Pi)))))
        filament_r == QDiv(s.filament_diam, QI(2))
        filament_area == QMul(Pi, QMul(filament_r, filament_r))
    IN  Put(s, [ tile_x_start |-> QI(s.margin_x),
                 tile_y_start |-> QI(s.margin_y),
                 tile_x_step |-> QMin(Q(span_x, s.steps_x), QI(s.max_tile_span)),
                 tile_y_step |-> QMin(Q(span_y, s.steps_y), QI(s.max_tile_span)),
                 ret_d_steps |->
                     [ x \in 1..(s.steps_x - 1) |->
                         QAdd(s.ret_d_start, QMul(s.ret_d_step, QI(x - 1))) ],
                 ret_spd_steps |->
                     [ y \in 1..(s.steps_x - 1) |->
                         QAdd(s.ret_spd_start, QMul(s.ret_spd_step, QI(y - 1))) ],
                 temp_steps |->
                     [ z \in 1..(s.steps_z - 1) |->
                         s.ret_temp_start + s.ret_temp_step * (z - 1) ],
                 nozzle_area |-> nozzle_area,
                 mm3_per_mm |-> mm3_per_mm,
                 e_per_mm |-> QDiv(mm3_per_mm, filament_area) ])

(***************************************************************************)
(* G-code generators.  A generator that changes the settings takes and     *)
(* returns a pair m = [s |-> settings, out |-> instructions so far], the   *)
(* way the source threads the global dictionary and the gcode string.      *)
(***************************************************************************)
generate_retract(s) == [ op |-> "retract", e |-> s.ret_d, f |-> s.ret_feed ]

generate_deretract(s) == [ op |-> "deretract", e |-> s.deret_d, f |-> s.ret_feed ]

generate_extrude_line(m, x, y) ==
    LET px == m.s.pos_x
        py == m.s.pos_y
        e_per_mm == m.s.e_per_mm
        d_x == QSub(x, px)
        d_y == QSub(y, py)
        travel == QSqrt(QAdd(QMul(d_x, d_x), QMul(d_y, d_y)))
        e == QMul(travel, e_per_mm)
    IN  [ s |-> Put(m.s, [ pos_x |-> x, pos_y |-> y ]),
          out |-> Append(m.out, [ op |-> "extrude", x |-> x, y |-> y, e |-> e ]) ]

generate_travel(m, x, y) ==
    LET s1 == Put(m.s, [ travel_x |-> x, travel_y |-> y ])
        travel == [ op |-> "travel", x |-> s1.travel_x, y |-> s1.travel_y,
                    f |-> s1.feed_travel ]
    IN  [ s |-> Put(s1, [ pos_x |-> x, pos_y |-> y ]),
          out |-> Append(m.out, travel) ]

generate_travel_speed(m) ==
    [ s |-> m.s, out |-> Append(m.out, [ op |-> "M204", s |-> m.s.feed_travel ]) ]

generate_print_speed(m) ==
    [ s |-> m.s, out |-> Append(m.out, [ op |-> "M204", s |-> m.s.feed_print ]) ]

\* one shell: travel speed, travel to its first corner, print speed, and
\* the four extrusion lines, at offset s from the edges of the tile.  Each
\* statement is applied to the value the statements before it gave (v1 is
\* the singleton of the state after the first statement, and so on).
generate_shell(m, origin_x, origin_y, far_x, far_y, s) ==
    LET v1 == { generate_travel_speed(v) : v \in {m} }
        v2 == { generate_travel(v, QAdd(origin_x, s), QAdd(origin_y, s)) : v \in v1 }
        v3 == { generate_print_speed(v) : v \in v2 }
        v4 == { generate_extrude_line(v, QSub(far_x, s), QAdd(origin_y, s)) : v \in v3 }
        v5 == { generate_extrude_line(v, QSub(far_x, s), QSub(far_y, s)) : v \in v4 }
        v6 == { generate_extrude_line(v, QAdd(origin_x, s), QSub(far_y, s)) : v \in v5 }
        v7 == { generate_extrude_line(v, QAdd(origin_x, s), QAdd(origin_y, s)) : v \in v6 }
    IN  CHOOSE r \in v7 : TRUE

\* the shrink of the shape: the marker of the first layer of a Z tile
ShapeShrink(z_intro) == IF z_intro THEN Q(8, 100) ELSE QI(0)

\* variant of generate_shape whose test for the inner shell leaves the
\* shrink out (square_size > 2*line_width)
generate_shape_no_shrink(m) ==
    LET origin_x == m.s.tile_origin_x
        origin_y == m.s.tile_origin_y
        shrink == ShapeShrink(m.s.z_tile_intro)
        square_size == m.s.square_size
        far_x == QAdd(origin_x, square_size)
        far_y == QAdd(origin_y, square_size)
        lw == m.s.line_width
        s_inner == QAdd(QMul(QI(2), lw), shrink)
        s_outer == QAdd(lw, shrink)
        inner == IF QLess(QMul(QI(2), lw), square_size)
                 THEN generate_shell(m, origin_x, origin_y, far_x, far_y, s_inner)
                 ELSE m
    IN  CHOOSE r \in { generate_shell(v, origin_x, origin_y, far_x, far_y, s_outer) :
                          v \in {inner} } : TRUE

generate_shape(m) ==
    LET origin_x == m.s.tile_origin_x
        origin_y == m.s.tile_origin_y
        shrink == ShapeShrink(m.s.z_tile_intro)
        square_size == m.s.square_size
        far_x == QAdd(origin_x, square_size)
        far_y == QAdd(origin_y, square_size)
        lw == m.s.line_width
        s_inner == QAdd(QMul(QI(2), lw), shrink)
        s_outer == QAdd(lw, shrink)
        inner == IF QLess(s_inner, square_size)
                 THEN generate_shell(m, origin_x, origin_y, far_x, far_y, s_inner)
                 ELSE m
    IN  CHOOSE r \in { generate_shell(v, origin_x, origin_y, far_x, far_y, s_outer) :
                          v \in {inner} } : TRUE

generate_travel_to_origin(m) ==
    generate_travel(m, m.s.tile_origin_x, m.s.tile_origin_y)

(***************************************************************************)
(* Templates of the blocks the script prints directly.                     *)
(***************************************************************************)
gcode_prologue(s) ==
    [ op |-> "prologue", settings |-> s.settings,
      temp_nozzle |-> s.temp_nozzle, temp_bed |-> s.temp_bed ]

gcode_epilogue(s) == [ op |-> "epilogue" ]

z_tile_prologue(s) ==
    [ op |-> "z_tile", z_tile |-> s.z_tile, temp_nozzle |-> s.temp_nozzle ]

z_layer_prologue(s) ==
    [ op |-> "layer", coord_z |-> s.coord_z, fan_spd_cmd |-> s.fan_spd_cmd,
      feed_z_m |-> s.feed_z_m ]

tile_prologue(s) ==
    [ op |-> "tile", tile_x |-> s.tile_x, tile_y |-> s.tile_y, tile_z |-> s.tile_z,
      tile_origin_x |-> s.tile_origin_x, tile_origin_y |-> s.tile_origin_y,
      tile_origin_z |-> s.tile_origin_z,
      deret_d |-> s.deret_d, ret_spd |-> s.ret_spd,
      temp_nozzle |-> s.temp_nozzle ]

(***************************************************************************)
(* The script.                                                             *)
(***************************************************************************)
Init ==
    /\ overrides \in Overlays
    /\ settings = Put(DefaultSettings, overrides)
    /\ z_tile = -1
    /\ z_tile_layers = -1
    /\ z_layer = -1
    /\ y_tile = -1
    /\ x_tile = -1
    /\ pc = "constants"
    /\ gcode = << >>
    /\ stderr = << >>

LoopVars == <<z_tile, z_tile_layers, z_layer, y_tile, x_tile>>

RecalculateConstants ==
    /\ pc = "constants"
    /\ settings' = recalculate_constants(settings)
    /\ pc' = "sanity"
    /\ UNCHANGED <<overrides, LoopVars, gcode, stderr>>

\* variant of SanityCheck in which exit is called: the script stops after
\* the diagnostic
SanityCheck_exits ==
    /\ pc = "sanity"
    /\ LET e1 == IF QLeq(settings.tile_x_step, settings.square_size)
                 THEN <<"square_size is larger than x step width (tile width)">>
                 ELSE << >>
           e2 == IF e1 = << >> /\ QLeq(settings.tile_y_step, settings.square_size)
                 THEN <<"square_size is larger than y step width (tile depth)">>
                 ELSE << >>
       IN  /\ stderr' = stderr \o e1 \o e2
           /\ pc' = IF e1 \o e2 = << >> THEN "prologue" ELSE "exit"
    /\ UNCHANGED <<overrides, settings, LoopVars, gcode>>

\* both tests report and fall through: "exit" names the function and does
\* not call it
SanityCheck ==
    /\ pc = "sanity"
    /\ LET e1 == IF QLeq(settings.tile_x_step, settings.square_size)
                 THEN <<"square_size is larger than x step width (tile width)">>
                 ELSE << >>
           e2 == IF QLeq(settings.tile_y_step, settings.square_size)
                 THEN <<"square_size is larger than y step width (tile depth)">>
                 ELSE << >>
       IN  stderr' = stderr \o e1 \o e2
    /\ pc' = "prologue"
    /\ UNCHANGED <<overrides, settings, LoopVars, gcode>>

\* the text of all settings is itself stored in the settings, then the
\* prologue is printed
Prologue ==
    /\ pc = "prologue"
    /\ settings' = Put(settings, [ settings |-> settings ])
    /\ gcode' = Append(gcode, gcode_prologue(settings'))
    /\ pc' = "initial_retract"
    /\ UNCHANGED <<overrides, LoopVars, stderr>>

InitialRetract ==
    /\ pc = "initial_retract"
    /\ settings' = recalculate_tile_settings(settings, 0, 0, 0)
    /\ gcode' = Append(gcode, generate_retract(settings'))
    /\ pc' = "z_head"
    /\ UNCHANGED <<overrides, LoopVars, stderr>>

\* variant of ZTileNext that sets the intro marker for the first Z tile only
ZTileNext_intro_once ==
    /\ pc = "z_head"
    /\ z_tile + 1 < settings.steps_z
    /\ z_tile' = z_tile + 1
    /\ settings' = recalculate_z_tile(
                       Put(settings, [ z_tile |-> z_tile',
                                       z_tile_intro |-> (z_tile' = 0) ]),
                       z_tile')
    /\ gcode' = Append(gcode, z_tile_prologue(settings'))
    /\ z_tile_layers' = settings.ret_temp_step_h
    /\ z_layer' = -1
    /\ pc' = "layer_head"
    /\ UNCHANGED <<overrides, y_tile, x_tile, stderr>>

ZTileNext ==
    /\ pc = "z_head"
    /\ z_tile + 1 < settings.steps_z
    /\ z_tile' = z_tile + 1
    /\ settings' = recalculate_z_tile(
                       Put(settings, [ z_tile |-> z_tile', z_tile_intro |-> TRUE ]),
                       z_tile')
    /\ gcode' = Append(gcode, z_tile_prologue(settings'))
    /\ z_tile_layers' = settings.ret_temp_step_h
    /\ z_layer' = -1
    /\ pc' = "layer_head"
    /\ UNCHANGED <<overrides, y_tile, x_tile, stderr>>

ZTileLoopEnd ==
    /\ pc = "z_head"
    /\ ~(z_tile + 1 < settings.steps_z)
    /\ pc' = "epilogue"
    /\ UNCHANGED <<overrides, settings, LoopVars, gcode, stderr>>

\* variant of LayerNext that numbers the layers within the band
LayerNext_band_relative ==
    /\ pc = "layer_head"
    /\ z_layer + 1 < z_tile_layers
    /\ z_layer' = z_layer + 1
    /\ settings' = recalculate_layer(settings, z_layer')
    /\ gcode' = Append(gcode, z_layer_prologue(settings'))
    /\ y_tile' = -1
    /\ pc' = "y_head"
    /\ UNCHANGED <<overrides, z_tile, z_tile_layers, x_tile, stderr>>

LayerNext ==
    /\ pc = "layer_head"
    /\ z_layer + 1 < z_tile_layers
    /\ z_layer' = z_layer + 1
    /\ settings' = recalculate_layer(settings, z_tile_layers * z_tile + z_layer')
    /\ gcode' = Append(gcode, z_layer_prologue(settings'))
    /\ y_tile' = -1
    /\ pc' = "y_head"
    /\ UNCHANGED <<overrides, z_tile, z_tile_layers, x_tile, stderr>>

LayerLoopEnd ==
    /\ pc = "layer_head"
    /\ ~(z_layer + 1 < z_tile_layers)
    /\ pc' = "z_head"
    /\ UNCHANGED <<overrides, settings, LoopVars, gcode, stderr>>

YTileNext ==
    /\ pc = "y_head"
    /\ y_tile + 1 < settings.steps_y
    /\ y_tile' = y_tile + 1
    /\ x_tile' = -1
    /\ pc' = "x_head"
    /\ UNCHANGED <<overrides, settings, z_tile, z_tile_layers, z_layer, gcode, stderr>>

\* after the last Y tile of the layer: "not a z intro any more"
YTileLoopEnd ==
    /\ pc = "y_head"
    /\ ~(y_tile + 1 < settings.steps_y)
    /\ settings' = Put(settings, [ z_tile_intro |-> FALSE ])
    /\ pc' = "layer_head"
    /\ UNCHANGED <<overrides, LoopVars, gcode, stderr>>

XTileNext ==
    /\ pc = "x_head"
    /\ x_tile + 1 < settings.steps_x
    /\ x_tile' = x_tile + 1
    /\ settings' = recalculate_tile_settings(settings, x_tile', y_tile, z_tile)
    /\ pc' = "tile_travel"
    /\ UNCHANGED <<overrides, z_tile, z_tile_layers, z_layer, y_tile, gcode, stderr>>

XTileLoopEnd ==
    /\ pc = "x_head"
    /\ ~(x_tile + 1 < settings.steps_x)
    /\ pc' = "y_head"
    /\ UNCHANGED <<overrides, settings, LoopVars, gcode, stderr>>

TileTravel ==
    /\ pc = "tile_travel"
    /\ \E m \in { generate_travel_to_origin([ s |-> settings, out |-> gcode ]) } :
           /\ settings' = m.s
           /\ gcode' = m.out
    /\ pc' = "tile_deretract"
    /\ UNCHANGED <<overrides, LoopVars, stderr>>

TileDeretract ==
    /\ pc = "tile_deretract"
    /\ gcode' = Append(gcode, generate_deretract(settings))
    /\ pc' = "tile_prologue"
    /\ UNCHANGED <<overrides, settings, LoopVars, stderr>>

TilePrologue ==
    /\ pc = "tile_prologue"
    /\ gcode' = Append(gcode, tile_prologue(settings))
    /\ pc' = "tile_shape"
    /\ UNCHANGED <<overrides, settings, LoopVars, stderr>>

TileShape ==
    /\ pc = "tile_shape"
    /\ \E m \in { generate_shape([ s |-> settings, out |-> gcode ]) } :
           /\ settings' = m.s
           /\ gcode' = m.out
    /\ pc' = "tile_retract"
    /\ UNCHANGED <<overrides, LoopVars, stderr>>

TileRetract ==
    /\ pc = "tile_retract"
    /\ gcode' = Append(gcode, generate_retract(settings))
    /\ pc' = "x_head"
    /\ UNCHANGED <<overrides, settings, LoopVars, stderr>>

Epilogue ==
    /\ pc = "epilogue"
    /\ gcode' = Append(gcode, gcode_epilogue(settings))
    /\ pc' = "done"
    /\ UNCHANGED <<overrides, settings, LoopVars, stderr>>

Next ==
    \/ RecalculateConstants
    \/ SanityCheck
    \/ Prologue
    \/ InitialRetract
    \/ ZTileNext
    \/ ZTileLoopEnd
    \/ LayerNext
    \/ LayerLoopEnd
    \/ YTileNext
    \/ YTileLoopEnd
    \/ XTileNext
    \/ XTileLoopEnd
    \/ TileTravel
    \/ TileDeretract
    \/ TilePrologue
    \/ TileShape
    \/ TileRetract
    \/ Epilogue

Spec == Init /\ [][Next]_vars

\* the script is one sequential process that runs to its end
FairSpec == Spec /\ WF_vars(Next)

(***************************************************************************)
(* Vocabulary of the properties.                                           *)
(***************************************************************************)
TilePCs == {"tile_travel", "tile_deretract", "tile_prologue", "tile_shape",
            "tile_retract"}

\* the script is between the recalculation of a tile and its retract, or
\* has just emitted the retract of tile (x_tile, y_tile, z_tile)
InTile == pc \in TilePCs
TileDone == pc = "x_head" /\ x_tile >= 0

Count(op) == Cardinality({ i \in 1..Len(gcode) : gcode[i].op = op })
LastOp == IF Len(gcode) = 0 THEN "none" ELSE gcode[Len(gcode)].op
TilesPerLayer == settings.steps_x * settings.steps_y
LayersPerBand == settings.ret_temp_step_h
TotalLayers == settings.steps_z * LayersPerBand
TotalTiles == TotalLayers * TilesPerLayer

\* 0-based sequence number of the tile being printed
TileIndex ==
    IF pc \in {"tile_travel", "tile_deretract"} THEN Count("deretract")
    ELSE Count("deretract") - 1

RetD(x) == QAdd(settings.ret_d_start, QMul(settings.ret_d_step, QI(x)))
RetSpd(y) == QAdd(settings.ret_spd_start, QMul(settings.ret_spd_step, QI(y)))
NozzleTemp(z) == settings.ret_temp_start + settings.ret_temp_step * z

ShellOps == <<"M204", "travel", "M204", "extrude", "extrude", "extrude", "extrude">>
InnerOffset == QAdd(QMul(QI(2), settings.line_width),
                    ShapeShrink(settings.z_tile_intro))
OuterOffset == QAdd(settings.line_width, ShapeShrink(settings.z_tile_intro))
InnerPresent == QLess(InnerOffset, settings.square_size)
TileOps ==
    <<"travel", "deretract", "tile">>
        \o (IF InnerPresent THEN ShellOps ELSE << >>) \o ShellOps \o <<"retract">>

\* the shell whose first instruction (M204) is gcode[b + 1] starts with a
\* travel at travel speed to the corner at offset s and prints at print speed
ShellStartsAt(b, s) ==
    /\ gcode[b + 1].s = settings.feed_travel
    /\ gcode[b + 2].x = QAdd(settings.tile_origin_x, s)
    /\ gcode[b + 2].y = QAdd(settings.tile_origin_y, s)
    /\ gcode[b + 3].s = settings.feed_print

(***************************************************************************)
(* C1: whenever a tile has just been completed, the instructions emitted   *)
(* for it are exactly travel to the tile origin, de-retract, tile          *)
(* annotation, inner shell (if present), outer shell, retract, in this     *)
(* order and with nothing else between them; the outer shell is always     *)
(* there and the inner shell is there iff square_size > 2*line_width +     *)
(* shrink, shrink being the one in force for the layer.                    *)
(***************************************************************************)
C1_TileInstructionOrder ==
    TileDone =>
        LET n == Len(gcode)
            k == Len(TileOps)
            b == n - k
        IN  /\ b >= 1
            /\ gcode[b].op \in {"retract", "layer"}
            /\ \A i \in 1..k : gcode[b + i].op = TileOps[i]
            /\ gcode[b + 1].x = settings.tile_origin_x
            /\ gcode[b + 1].y = settings.tile_origin_y
            /\ IF InnerPresent
               THEN ShellStartsAt(b + 3, InnerOffset) /\ ShellStartsAt(b + 10, OuterOffset)
               ELSE ShellStartsAt(b + 3, OuterOffset)

\* a tile without inner shell was printed in the first layer, and a tile of
\* the same run with an inner shell has just been completed
C1_Witness ==
    /\ TileDone
    /\ InnerPresent
    /\ z_layer = 1
    /\ ~QLess(QAdd(QMul(QI(2), settings.line_width), ShapeShrink(TRUE)),
              settings.square_size)

(***************************************************************************)
(* C2: the sweep visits the tuples (z_tile, z_layer, y_tile, x_tile) in    *)
(* increasing lexicographic order, each once: the k-th tile printed        *)
(* (k from 0) is the k-th tuple of the mixed-radix enumeration; one layer  *)
(* change was emitted per layer begun, before the tiles of the layer, the  *)
(* absolute layer index is the number of earlier layer changes; the run    *)
(* ends, and at its end steps_z*layers_per_band layers of steps_y*steps_x  *)
(* tiles each were emitted, the epilogue being the last instruction (with  *)
(* the default settings 155 layers, and 2000 tiles of distinct x, y, z).   *)
(***************************************************************************)
C2_SweepState ==
    /\ InTile =>
        LET k == TileIndex
        IN  /\ x_tile = k % settings.steps_x
            /\ y_tile = (k \div settings.steps_x) % settings.steps_y
            /\ z_layer = (k \div TilesPerLayer) % LayersPerBand
            /\ z_tile = k \div (TilesPerLayer * LayersPerBand)
            /\ settings.tile_x = x_tile
            /\ settings.tile_y = y_tile
            /\ settings.tile_z = z_tile
            /\ Count("layer") = (k \div TilesPerLayer) + 1
            /\ Count("z_tile") = z_tile + 1
            /\ settings.layer = LayersPerBand * z_tile + z_layer
            /\ settings.layer = Count("layer") - 1
            /\ Count("epilogue") = 0
    /\ LastOp = "layer" =>
        /\ gcode[Len(gcode)].coord_z =
               QMul(settings.layer_height, QI(Count("layer")))
        /\ Count("deretract") = (Count("layer") - 1) * TilesPerLayer
        /\ Count("retract") = Count("deretract") + 1
    /\ LastOp = "tile" =>
        /\ gcode[Len(gcode)].tile_x = x_tile
        /\ gcode[Len(gcode)].tile_y = y_tile
        /\ gcode[Len(gcode)].tile_z = z_tile
    /\ pc = "done" =>
        /\ Count("deretract") = TotalTiles
        /\ Count("tile") = TotalTiles
        /\ Count("layer") = TotalLayers
        /\ Count("z_tile") = settings.steps_z
        /\ Count("epilogue") = 1
        /\ LastOp = "epilogue"
    /\ DefaultSettings.steps_z * DefaultSettings.ret_temp_step_h = 155
    /\ DefaultSettings.steps_x * DefaultSettings.steps_y * DefaultSettings.steps_z
           = 2000

C2_SweepOrder == []C2_SweepState /\ <>(pc = "done")

\* the last tile of a sweep of two bands, two layers a band and 2 x 2 tiles
\* a layer has been printed
C2_Witness ==
    /\ TileDone
    /\ Count("retract") = TotalTiles + 1
    /\ settings.steps_z >= 2 /\ LayersPerBand >= 2
    /\ settings.steps_y >= 2 /\ settings.steps_x >= 2

(***************************************************************************)
(* C3: while the instructions of tile (x, y, z) are emitted the current    *)
(* de-retract distance is ret_d_start + ret_d_step*x and the retract       *)
(* distance its negation, the speed is ret_spd_start + ret_spd_step*y and  *)
(* the feed 60 times the speed, the nozzle temperature is ret_temp_start + *)
(* ret_temp_step*z; the emitted de-retract, annotation and retract carry   *)
(* these values (tile (0,0,0): 1.0 mm, 10 mm/s, 210 C; tile (1,0,0):       *)
(* 1.25 mm).                                                               *)
(***************************************************************************)
C3_TileParameters ==
    /\ (InTile \/ TileDone) =>
        /\ settings.deret_d = RetD(x_tile)
        /\ settings.ret_d = QNeg(RetD(x_tile))
        /\ settings.ret_spd = RetSpd(y_tile)
        /\ settings.ret_feed = QMul(QI(60), RetSpd(y_tile))
        /\ settings.temp_nozzle = NozzleTemp(z_tile)
        /\ (x_tile = 0 => settings.deret_d = QI(1))
        /\ (x_tile = 1 => settings.deret_d = Q(125, 100))
        /\ (y_tile = 0 => settings.ret_spd = QI(10))
        /\ (z_tile = 0 => settings.temp_nozzle = 210)
        /\ LET r == gcode[Len(gcode)]
           IN  /\ r.op = "deretract" =>
                    r.e = RetD(x_tile) /\ r.f = QMul(QI(60), RetSpd(y_tile))
               /\ TileDone =>
                    /\ r.op = "retract"
                    /\ r.e = QNeg(RetD(x_tile))
                    /\ r.f = QMul(QI(60), RetSpd(y_tile))
               /\ r.op = "tile" =>
                    /\ r.deret_d = RetD(x_tile)
                    /\ r.ret_spd = RetSpd(y_tile)
                    /\ r.temp_nozzle = NozzleTemp(z_tile)
    /\ LastOp = "z_tile" =>
        /\ gcode[Len(gcode)].z_tile = z_tile
        /\ gcode[Len(gcode)].temp_nozzle = NozzleTemp(z_tile)

\* the annotation of tile (1, 1, 1) has been emitted
C3_Witness ==
    /\ pc = "tile_shape"
    /\ x_tile = 1 /\ y_tile = 1 /\ z_tile = 1
    /\ LastOp = "tile"

(***************************************************************************)
(* C4: every tile of the first layer of each Z band is printed with the    *)
(* shrink 0.08, every tile of another layer with the shrink 0: while a     *)
(* tile is printed the marker is set iff the layer is the first of its     *)
(* band, and the outer shell that was emitted starts at the tile origin +  *)
(* line_width + that shrink.                                               *)
(***************************************************************************)
C4_ShrinkOnFirstLayer ==
    LET shrink == IF z_layer = 0 THEN Q(8, 100) ELSE QI(0)
    IN  /\ InTile =>
            /\ settings.z_tile_intro = (z_layer = 0)
            /\ ShapeShrink(settings.z_tile_intro) = shrink
        /\ pc = "tile_retract" =>
            LET t == gcode[Len(gcode) - 5]
            IN  /\ t.op = "travel"
                /\ t.x = QAdd(settings.tile_origin_x, QAdd(settings.line_width, shrink))
                /\ t.y = QAdd(settings.tile_origin_y, QAdd(settings.line_width, shrink))

\* the last tile of the first layer of the second band has its shape
C4_Witness ==
    /\ pc = "tile_retract"
    /\ z_tile = 1 /\ z_layer = 0
    /\ x_tile = settings.steps_x - 1 /\ y_tile = settings.steps_y - 1
    /\ Count("layer") > 2

(***************************************************************************)
(* C5: when square_size >= tile_x_step or square_size >= tile_y_step the   *)
(* sanity check writes a diagnostic to the error stream (and only then),   *)
(* the check changes neither the settings nor the output nor the loop      *)
(* state and continues with the prologue, and the run goes on to its       *)
(* normal end: prologue, every tile of the sweep, epilogue.                *)
(***************************************************************************)
Warned == Len(stderr) > 0
SquareTooLarge ==
    \/ QLeq(settings.tile_x_step, settings.square_size)
    \/ QLeq(settings.tile_y_step, settings.square_size)
CompleteRun ==
    /\ pc = "done"
    /\ Count("prologue") = 1
    /\ Count("tile") = TotalTiles
    /\ Count("layer") = TotalLayers
    /\ LastOp = "epilogue"

C5_SanityCheckDoesNotAbort ==
    /\ [](pc \notin {"constants", "sanity"} => (Warned <=> SquareTooLarge))
    /\ [][pc = "sanity" =>
            /\ settings' = settings
            /\ gcode' = gcode
            /\ LoopVars' = LoopVars
            /\ pc' = "prologue"]_vars
    /\ [](Warned => <>CompleteRun)

\* a run that was warned about has ended, with all its tiles
C5_Witness == Warned /\ CompleteRun /\ TotalTiles >= 4

(***************************************************************************)
(* C6: for every tile, tile origin + square_size is at most                *)
(* bed_size - margin, on both axes.                                        *)
(***************************************************************************)
C6_FarEdgeWithinBed ==
    InTile =>
        /\ QLeq(QAdd(settings.tile_origin_x, settings.square_size),
                QI(settings.bed_size_x - settings.margin_x))
        /\ QLeq(QAdd(settings.tile_origin_y, settings.square_size),
                QI(settings.bed_size_y - settings.margin_y))

(***************************************************************************)
(* C7: the number of layers printed in each Z band is                      *)
(* round(5 / layer_height), for the layer height in force (stated for the  *)
(* runs whose overlay does not set the number of layers itself).           *)
(***************************************************************************)
\* round() of a non-negative float: to the nearest integer, a tie to the
\* even one
PyRound(q) ==
    LET f == (2 * q[1] + q[2]) \div (2 * q[2])
        tie == (2 * q[1] + q[2]) % (2 * q[2]) = 0
    IN  IF tie /\ f % 2 = 1 THEN f - 1 ELSE f

C7_LayersPerBand ==
    (pc = "z_head" /\ z_tile >= 0 /\ "ret_temp_step_h" \notin DOMAIN overrides) =>
        Count("layer") = (z_tile + 1) * PyRound(QDiv(QI(5), settings.layer_height))

(***************************************************************************)
(* C8: recalculate_constants runs once, before any recompute per band,     *)
(* layer or tile and before any output; from then on tile_x_step =         *)
(* min((bed_size_x - 2*margin_x)/steps_x, max_tile_span), tile_y_step      *)
(* likewise, tile_x_start = margin_x, tile_y_start = margin_y, e_per_mm =  *)
(* layer_height*(line_width - layer_height*(1 - pi/4)) /                   *)
(* (pi*(filament_diam/2)^2), and no later step changes any of them.        *)
(***************************************************************************)
DerivedConstants(s) ==
    <<s.tile_x_step, s.tile_y_step, s.tile_x_start, s.tile_y_start, s.e_per_mm>>

C8_ConstantsComputed ==
    /\ pc = "constants" =>
        /\ gcode = << >>
        /\ {"tile_x_step", "e_per_mm", "z_tile", "layer", "tile_x"}
               \cap DOMAIN settings = {}
    /\ pc # "constants" =>
        /\ settings.tile_x_step =
               QMin(Q(settings.bed_size_x - 2 * settings.margin_x, settings.steps_x),
                    QI(settings.max_tile_span))
        /\ settings.tile_y_step =
               QMin(Q(settings.bed_size_y - 2 * settings.margin_y, settings.steps_y),
                    QI(settings.max_tile_span))
        /\ settings.tile_x_start = QI(settings.margin_x)
        /\ settings.tile_y_start = QI(settings.margin_y)
        /\ settings.e_per_mm =
               QDiv(QMul(settings.layer_height,
                         QSub(settings.line_width,
                              QMul(settings.layer_height,
                                   QSub(QI(1), QDiv(Pi, QI(4)))))),
                    QMul(Pi, QMul(QDiv(settings.filament_diam, QI(2)),
                                  QDiv(settings.filament_diam, QI(2)))))

C8_DerivedOnceConstants ==
    /\ []C8_ConstantsComputed
    /\ [][pc # "constants" =>
            /\ pc' # "constants"
            /\ DerivedConstants(settings') = DerivedConstants(settings)]_vars

\* the run has ended with a tile step that was capped at max_tile_span
C8_Witness ==
    /\ pc = "done"
    /\ Count("tile") >= 4
    /\ settings.tile_x_step = QI(settings.max_tile_span)
    /\ QLess(QI(settings.max_tile_span),
             Q(settings.bed_size_x - 2 * settings.margin_x, settings.steps_x))

(***************************************************************************)
(* C9: a shell drawn with offset s at tile origin (ox, oy), S being        *)
(* square_size, is a travel to (ox+s, oy+s) and four extrusion segments    *)
(* that end at (ox+S-s, oy+s), (ox+S-s, oy+S-s), (ox+s, oy+S-s),           *)
(* (ox+s, oy+s), each of length S - 2*s and extrusion e_per_mm*(S - 2*s);  *)
(* the tracked position is the tile origin after the travel to the tile    *)
(* and the starting point of the last shell after the shape.               *)
(***************************************************************************)
\* the shell whose travel is gcode[b]
ShellAt(b, s) ==
    LET ox == settings.tile_origin_x
        oy == settings.tile_origin_y
        far_x == QAdd(ox, settings.square_size)
        far_y == QAdd(oy, settings.square_size)
        side == QSub(settings.square_size, QMul(QI(2), s))
        e == QMul(settings.e_per_mm, side)
        Segment(i, x, y) ==
            /\ gcode[i].op = "extrude"
            /\ gcode[i].x = x
            /\ gcode[i].y = y
            /\ gcode[i].e = e
    IN  /\ gcode[b].op = "travel"
        /\ gcode[b].x = QAdd(ox, s)
        /\ gcode[b].y = QAdd(oy, s)
        /\ gcode[b + 1].op = "M204"
        /\ Segment(b + 2, QSub(far_x, s), QAdd(oy, s))
        /\ Segment(b + 3, QSub(far_x, s), QSub(far_y, s))
        /\ Segment(b + 4, QAdd(ox, s), QSub(far_y, s))
        /\ Segment(b + 5, QAdd(ox, s), QAdd(oy, s))

C9_ShellGeometry ==
    /\ pc = "tile_deretract" =>
        /\ settings.pos_x = settings.tile_origin_x
        /\ settings.pos_y = settings.tile_origin_y
    /\ pc = "tile_retract" =>
        /\ ShellAt(Len(gcode) - 5, OuterOffset)
        /\ InnerPresent => ShellAt(Len(gcode) - 12, InnerOffset)
        /\ settings.pos_x = QAdd(settings.tile_origin_x, OuterOffset)
        /\ settings.pos_y = QAdd(settings.tile_origin_y, OuterOffset)

(***************************************************************************)
(* C10: the E moves of all retracts and de-retracts emitted so far sum to  *)
(* 0 whenever a shell segment has just been extruded, and to a negative    *)
(* length during the travel to a tile.                                     *)
(***************************************************************************)
RetractSum[i \in Nat] ==
    IF i = 0 THEN QI(0)
    ELSE IF gcode[i].op \in {"retract", "deretract"}
         THEN QAdd(RetractSum[i - 1], gcode[i].e)
         ELSE RetractSum[i - 1]

C10_RetractionBalanced ==
    /\ LastOp = "extrude" => RetractSum[Len(gcode)] = QI(0)
    /\ pc = "tile_deretract" => QLess(RetractSum[Len(gcode)], QI(0))

====
